---- MODULE Spec2Model ----
(***************************************************************************)
(* A model of ogpgen (src/src/lib.rs): the fetch handler `main`, the      *)
(* orchestrator `render_text`, the paragraph layout `layout_paragraph`    *)
(* and the compositor `render_glyphs`.                                     *)
(*                                                                         *)
(* Pixel coordinates are integers: every font table below has metrics     *)
(* that scale to whole pixels, so the f32 arithmetic of the code is exact. *)
(* Coverage values are quarters (0/4 .. 4/4), which f32 represents and     *)
(* multiplies with a u8 channel exactly.                                   *)
(***************************************************************************)
EXTENDS Integers, Sequences, FiniteSets, TLC

VARIABLES
    \* layout_paragraph: its arguments and locals
    font, font_scale, position, max_width, text, next_char,
    caret, last_glyph, target,
    \* which operation the layout specification is in
    lpc,
    \* render_text and render_glyphs: the canvas, the colour, the laid-out
    \* glyphs and the next one to draw
    imgbuf, text_color, glyphs, next_glyph,
    \* the canvas render_text was given, the canvas after the first
    \* render_glyphs call, and the number of render_glyphs calls returned
    initial, once, calls,
    \* which operation the render specification is in
    rpc,
    \* the fetch handler: the request, the statement main is at, main's
    \* locals, the response it returned, and the Cache API's content
    req, pc, locals, response, cache

layoutVars == <<font, font_scale, position, max_width, text, next_char,
                caret, last_glyph, target, lpc>>
renderVars == <<imgbuf, text_color, glyphs, next_glyph, initial, once, calls, rpc>>

handlerVars == <<req, pc, locals, response, cache>>

vars == <<layoutVars, renderVars, handlerVars>>

-----------------------------------------------------------------------------
(* Program constants *)

IMAGE_WIDTH == 1200
IMAGE_HEIGHT == 630
\* render_text lays out within IMAGE_WIDTH - 180
WrapMargin == 180
\* PxScale of the text block, and of the title and author blocks
TextScale == 70
TitleScale == 60

\* if text.len() > 150
MaxTextBytes == 150

(* Bounds *)

\* longest text handed to layout_paragraph
MaxLen == 3

-----------------------------------------------------------------------------
(* Option<T>: None is the empty tuple, Some(x) the one-element tuple *)

None == <<>>
Some(x) == <<x>>

Point(px, py) == [x |-> px, y |-> py]

\* b, with a computed first (TLC computes an operator's argument only when
\* it is first used, which nests the steps of a long loop too deeply)
AfterComputing(a, b) == IF a = a THEN b ELSE b

-----------------------------------------------------------------------------
(* Characters.  "\n" and "\t" are control characters (and whitespace),    *)
(* " " is whitespace that is no control character.  Request parameters     *)
(* may also hold "U+3042", a three-byte character outside the fonts'       *)
(* character maps.                                                         *)

Chars == {"a", "b", " ", "\n", "\t"}

\* the bytes of a character in UTF-8
Utf8Len(c) == IF c = "U+3042" THEN 3 ELSE 1

IsControl(c) == c \in {"\n", "\t"}
IsWhitespace(c) == c \in {" ", "\n", "\t"}

-----------------------------------------------------------------------------
(* Fonts.  A font is the table ab_glyph reads from the font file: metrics  *)
(* in font units, a kerning table, and the outlines.  Glyph 0 is .notdef,  *)
(* 1 is 'a', 2 is 'b', 3 is the space.                                     *)

GlyphIds == 0 .. 3

\* an outline: the offset of its bounding box from the glyph position (font
\* units) and its coverage, row by row, in quarters
OutlineA == [dx_u |-> 0, dy_u |-> -5, rows |-> << <<4, 2>>, <<0, 1>> >>]
OutlineB == [dx_u |-> 1, dy_u |-> -8, rows |-> << <<4>> >>]

FontTable(advA, kernAB, gap) ==
    [ascent_u   |-> 8,
     descent_u  |-> -2,
     line_gap_u |-> gap,
     adv_u      |-> [g \in GlyphIds |->
                        CASE g = 1 -> advA [] g = 2 -> 90 [] g = 3 -> 60 [] OTHER -> 50],
     kern_u     |-> [p \in GlyphIds \X GlyphIds |->
                        IF p = <<1, 2>> THEN kernAB ELSE 0],
     outline    |-> [g \in GlyphIds |->
                        CASE g = 1 -> Some(OutlineA) [] g = 2 -> Some(OutlineB)
                          [] OTHER -> None]]

\* advance of 'a', kerning of the pair ('a', 'b'), line gap
Fonts ==
    { FontTable(90, 0, 0), FontTable(90, -100, 2), FontTable(90, 60, 0),
      FontTable(90, -30, 0), FontTable(180, 0, 2), FontTable(0, -100, 0),
      FontTable(85, 0, 0) }

\* Font::glyph_id: the character map; a character the font lacks is .notdef
GlyphId(c) ==
    CASE c = "a" -> 1 [] c = "b" -> 2 [] c = " " -> 3 [] OTHER -> 0

\* Font::as_scaled: PxScale is the pixel height of ascent - descent, so a
\* length of u font units is u * scale / (ascent_u - descent_u) pixels
AsScaled(f, scale) == [font |-> f, scale |-> scale]
Scaled(sf, u) == (u * sf.scale) \div (sf.font.ascent_u - sf.font.descent_u)
Ascent(sf) == Scaled(sf, sf.font.ascent_u)
Descent(sf) == Scaled(sf, sf.font.descent_u)
Height(sf) == Ascent(sf) - Descent(sf)
LineGap(sf) == Scaled(sf, sf.font.line_gap_u)
HAdvance(sf, id) == Scaled(sf, sf.font.adv_u[id])
Kern(sf, first, second) == Scaled(sf, sf.font.kern_u[<<first, second>>])
ScaledGlyph(sf, c) == [id |-> GlyphId(c), scale |-> sf.scale, position |-> Point(0, 0)]

-----------------------------------------------------------------------------
(* layout_paragraph *)

\* let v_advance = font.height() + font.line_gap();
VAdvance(sf) == Height(sf) + LineGap(sf)

\* the state before the loop
LayoutStart(sf, pos) ==
    [caret      |-> Point(pos.x, pos.y + Ascent(sf)),
     last_glyph |-> None,
     target     |-> <<>>]

\* mutant: the newline keeps the kerning history
ControlChar_KeepsLastGlyph(sf, pos, st, c) ==
    IF c = "\n"
    THEN [st EXCEPT !.caret = Point(pos.x, st.caret.y + VAdvance(sf))]
    ELSE st

\* if c.is_control() { if c == '\n' { ... } continue; }
ControlChar(sf, pos, st, c) ==
    IF c = "\n"
    THEN [st EXCEPT !.caret = Point(pos.x, st.caret.y + VAdvance(sf)),
                    !.last_glyph = None]
    ELSE st

\* if let Some(previous) = last_glyph.take() { caret.x += font.kern(..) }
KernedCaret(sf, st, glyph) ==
    IF st.last_glyph # None
    THEN [st.caret EXCEPT !.x = @ + Kern(sf, st.last_glyph[1].id, glyph.id)]
    ELSE st.caret

\* mutant: the wrap fires at the threshold, not beyond it
Wraps_AtThreshold(pos, width, c, caretX) ==
    ~IsWhitespace(c) /\ caretX >= pos.x + width

\* if !c.is_whitespace() && caret.x > position.x + max_width
Wraps(pos, width, c, caretX) ==
    ~IsWhitespace(c) /\ caretX > pos.x + width

\* mutant: the wrap check reads the pen before it advances over the glyph
PlaceChar_ChecksBeforeAdvance(sf, pos, width, st, c) ==
    LET at == KernedCaret(sf, st, ScaledGlyph(sf, c))
        glyph == [ScaledGlyph(sf, c) EXCEPT !.position = at]
        advanced == [at EXCEPT !.x = @ + HAdvance(sf, glyph.id)]
    IN  IF Wraps(pos, width, c, at.x)
        THEN [caret      |-> Point(pos.x, advanced.y + VAdvance(sf)),
              last_glyph |-> None,
              target     |-> Append(st.target, glyph)]
        ELSE [caret      |-> advanced,
              last_glyph |-> Some(glyph),
              target     |-> Append(st.target, glyph)]

\* mutant: a wrap sends the pen back to x = 0 instead of the anchor
PlaceChar_WrapsToOrigin(sf, pos, width, st, c) ==
    LET at == KernedCaret(sf, st, ScaledGlyph(sf, c))
        glyph == [ScaledGlyph(sf, c) EXCEPT !.position = at]
        advanced == [at EXCEPT !.x = @ + HAdvance(sf, glyph.id)]
    IN  IF Wraps(pos, width, c, advanced.x)
        THEN [caret      |-> Point(0, advanced.y + VAdvance(sf)),
              last_glyph |-> None,
              target     |-> Append(st.target, glyph)]
        ELSE [caret      |-> advanced,
              last_glyph |-> Some(glyph),
              target     |-> Append(st.target, glyph)]

\* mutant: the glyph that triggers a wrap is not pushed
PlaceChar_DropsWrapped(sf, pos, width, st, c) ==
    LET at == KernedCaret(sf, st, ScaledGlyph(sf, c))
        glyph == [ScaledGlyph(sf, c) EXCEPT !.position = at]
        advanced == [at EXCEPT !.x = @ + HAdvance(sf, glyph.id)]
    IN  IF Wraps(pos, width, c, advanced.x)
        THEN [caret      |-> Point(pos.x, advanced.y + VAdvance(sf)),
              last_glyph |-> None,
              target     |-> st.target]
        ELSE [caret      |-> advanced,
              last_glyph |-> Some(glyph),
              target     |-> Append(st.target, glyph)]

\* the loop body for a character that is no control character
PlaceChar(sf, pos, width, st, c) ==
    LET at == KernedCaret(sf, st, ScaledGlyph(sf, c))
        glyph == [ScaledGlyph(sf, c) EXCEPT !.position = at]
        advanced == [at EXCEPT !.x = @ + HAdvance(sf, glyph.id)]
    IN  IF Wraps(pos, width, c, advanced.x)
        THEN [caret      |-> Point(pos.x, advanced.y + VAdvance(sf)),
              last_glyph |-> None,
              target     |-> Append(st.target, glyph)]
        ELSE [caret      |-> advanced,
              last_glyph |-> Some(glyph),
              target     |-> Append(st.target, glyph)]

\* one iteration of `for c in text.chars()`
LayoutChar(sf, pos, width, st, c) ==
    IF IsControl(c) THEN ControlChar(sf, pos, st, c)
    ELSE PlaceChar(sf, pos, width, st, c)

\* the loop over the characters of s, from the locals st (the first half of
\* s, then the second half from where the first ends)
RECURSIVE LayoutFrom(_, _, _, _, _)
LayoutFrom(sf, pos, width, st, s) ==
    IF s = <<>> THEN st
    ELSE IF Len(s) = 1 THEN LayoutChar(sf, pos, width, st, s[1])
    ELSE LET half == Len(s) \div 2
             first == LayoutFrom(sf, pos, width, st, SubSeq(s, 1, half))
         IN  AfterComputing(first,
                 LayoutFrom(sf, pos, width, first, SubSeq(s, half + 1, Len(s))))

\* the glyphs layout_paragraph pushes to `target`
LayoutParagraph(sf, pos, width, s) ==
    LayoutFrom(sf, pos, width, LayoutStart(sf, pos), s).target

-----------------------------------------------------------------------------
(* The canvas: ImageBuffer<Rgba<u8>, Vec<u8>>.  A canvas made by           *)
(* from_pixel is uniform, so it is kept as its fill pixel and the pixels   *)
(* that differ from it.                                                    *)

Rgba(r, g, b, a) == <<r, g, b, a>>

FromPixel(w, h, pixel) == [width |-> w, height |-> h, fill |-> pixel, px |-> <<>>]

GetPixel(img, x, y) ==
    IF <<x, y>> \in DOMAIN img.px THEN img.px[<<x, y>>] ELSE img.fill

\* get_pixel_mut panics unless x < width and y < height
InBounds(img, x, y) == x < img.width /\ y < img.height

PutPixel(img, x, y, pixel) ==
    LET others == DOMAIN img.px \ {<<x, y>>}
        kept == [q \in others |-> img.px[q]]
    IN  [img EXCEPT !.px = IF pixel = img.fill THEN kept
                           ELSE (<<x, y>> :> pixel) @@ kept]

\* `as u32` of an f32: saturating, so a negative value is 0 (the upper
\* limit 2^32 - 1 is beyond every coordinate of the model)
AsU32(v) == IF v < 0 THEN 0 ELSE v
\* `as u8` of an f32: truncating and saturating
AsU8(num, den) ==
    IF num < 0 THEN 0 ELSE IF num \div den > 255 THEN 255 ELSE num \div den

-----------------------------------------------------------------------------
(* render_glyphs *)

\* mutant: the coverage is added onto the channel (saturating)
BlendChannel_Accumulates(channel, color, v) ==
    AsU8(channel * 4 + color * v, 4)

\* (px.0[i] as f32 * (1.0 - v) + text_color.i as f32 * v) as u8, v in quarters
BlendChannel(channel, color, v) ==
    AsU8(channel * (4 - v) + color * v, 4)

Blend(pixel, color, v) ==
    Rgba(BlendChannel(pixel[1], color[1], v),
         BlendChannel(pixel[2], color[2], v),
         BlendChannel(pixel[3], color[3], v),
         255)

\* outlined.px_bounds().min
BoundsMin(f, glyph) ==
    LET sf == AsScaled(f, glyph.scale)
        o == f.outline[glyph.id][1]
    IN  Point(glyph.position.x + Scaled(sf, o.dx_u),
              glyph.position.y + Scaled(sf, o.dy_u))

\* the (x, y, v) that outlined.draw hands to its callback, row by row
RECURSIVE RowSamples(_, _, _)
RowSamples(row, y, x) ==
    IF x >= Len(row) THEN <<>>
    ELSE <<[x |-> x, y |-> y, v |-> row[x + 1]]>> \o RowSamples(row, y, x + 1)

RECURSIVE Samples(_, _)
Samples(rows, y) ==
    IF y >= Len(rows) THEN <<>>
    ELSE RowSamples(rows[y + 1], y, 0) \o Samples(rows, y + 1)

\* the callback, sample by sample; a pixel outside the canvas panics
RECURSIVE DrawSamples(_, _, _, _)
DrawSamples(img, samples, min, color) ==
    IF samples = <<>> THEN [panicked |-> FALSE, img |-> img]
    ELSE LET s == Head(samples)
             x == s.x + AsU32(min.x)
             y == s.y + AsU32(min.y)
         IN  IF ~InBounds(img, x, y) THEN [panicked |-> TRUE, img |-> img]
             ELSE DrawSamples(PutPixel(img, x, y, Blend(GetPixel(img, x, y), color, s.v)),
                              Tail(samples), min, color)

\* mutant: a glyph without an outline is drawn as a one-pixel box
DrawGlyph_BoxForMissing(f, img, glyph, color) ==
    IF f.outline[glyph.id] = None
    THEN DrawSamples(img, <<[x |-> 0, y |-> 0, v |-> 4]>>, glyph.position, color)
    ELSE DrawSamples(img, Samples(f.outline[glyph.id][1].rows, 0),
                     BoundsMin(f, glyph), color)

\* one iteration of `for glyph in glyphs`
DrawGlyph(f, img, glyph, color) ==
    IF f.outline[glyph.id] = None
    THEN [panicked |-> FALSE, img |-> img]
    ELSE DrawSamples(img, Samples(f.outline[glyph.id][1].rows, 0),
                     BoundsMin(f, glyph), color)

\* the loop over the glyphs gs (the first half, then, unless that panicked,
\* the second half on the canvas the first leaves)
RECURSIVE RenderGlyphs(_, _, _, _)
RenderGlyphs(f, gs, img, color) ==
    IF gs = <<>> THEN [panicked |-> FALSE, img |-> img]
    ELSE IF Len(gs) = 1 THEN DrawGlyph(f, img, gs[1], color)
    ELSE LET half == Len(gs) \div 2
             drawn == RenderGlyphs(f, SubSeq(gs, 1, half), img, color)
         IN  IF drawn.panicked THEN drawn
             ELSE RenderGlyphs(f, SubSeq(gs, half + 1, Len(gs)), drawn.img, color)

\* render_text: lay out within IMAGE_WIDTH - 180, then composite
RenderText(f, scale, img, s, color, pos) ==
    RenderGlyphs(f,
                 LayoutParagraph(AsScaled(f, scale), pos, IMAGE_WIDTH - WrapMargin, s),
                 img, color)

-----------------------------------------------------------------------------
(* The text blocks main draws: scale and anchor *)

Blocks ==
    { [scale |-> TextScale,  at |-> Point(80, 230)],
      [scale |-> TitleScale, at |-> Point(80, 80)],
      [scale |-> TitleScale, at |-> Point(1000, 500)] }

RECURSIVE SeqsUpTo(_, _)
SeqsUpTo(S, n) ==
    IF n = 0 THEN {<<>>}
    ELSE LET shorter == SeqsUpTo(S, n - 1)
         IN  shorter \cup {Append(s, c) : s \in shorter, c \in S}

Texts == SeqsUpTo(Chars, MaxLen)

-----------------------------------------------------------------------------
(* The layout specification: layout_paragraph, one character per step,     *)
(* called as render_text calls it.                                         *)

ScaledFont == AsScaled(font, font_scale)

\* the handler variables while only render_text or layout_paragraph runs
HandlerUnused ==
    /\ req = None /\ pc = "unused" /\ locals = None /\ response = None
    /\ cache = <<>>

\* the render variables while only layout_paragraph runs
RenderUnused ==
    /\ imgbuf = None /\ text_color = None /\ glyphs = <<>> /\ next_glyph = 0
    /\ initial = None /\ once = None /\ calls = 0 /\ rpc = "unused"

\* the layout locals while render_text runs layout_paragraph in one step
LayoutUnused ==
    /\ next_char = 0 /\ caret = None /\ last_glyph = None /\ target = <<>>
    /\ lpc = "unused"

LayoutInit ==
    /\ RenderUnused
    /\ HandlerUnused
    /\ font \in Fonts
    /\ \E b \in Blocks : font_scale = b.scale /\ position = b.at
    /\ max_width = IMAGE_WIDTH - WrapMargin
    /\ text \in Texts
    /\ next_char = 1
    /\ caret = LayoutStart(ScaledFont, position).caret
    /\ last_glyph = LayoutStart(ScaledFont, position).last_glyph
    /\ target = LayoutStart(ScaledFont, position).target
    /\ lpc = "loop"

LayoutLocals == [caret |-> caret, last_glyph |-> last_glyph, target |-> target]

LayoutStep ==
    /\ lpc = "loop"
    /\ next_char <= Len(text)
    /\ LET st == LayoutChar(ScaledFont, position, max_width, LayoutLocals,
                            text[next_char])
       IN  /\ caret' = st.caret
           /\ last_glyph' = st.last_glyph
           /\ target' = st.target
    /\ next_char' = next_char + 1
    /\ UNCHANGED <<font, font_scale, position, max_width, text, lpc>>
    /\ UNCHANGED <<renderVars, handlerVars>>

LayoutReturn ==
    /\ lpc = "loop"
    /\ next_char > Len(text)
    /\ lpc' = "returned"
    /\ UNCHANGED <<font, font_scale, position, max_width, text, next_char,
                   caret, last_glyph, target>>
    /\ UNCHANGED <<renderVars, handlerVars>>

LayoutNext == LayoutStep \/ LayoutReturn

SpecLayout == LayoutInit /\ [][LayoutNext]_vars

-----------------------------------------------------------------------------
(* The render specification: render_text on a fresh canvas, one glyph per  *)
(* step of render_glyphs, and a second render_glyphs call with the same    *)
(* glyphs and colour.                                                      *)

RenderFonts == { FontTable(90, 0, 0), FontTable(90, -200, 2), FontTable(180, 0, 2) }
Colors == { <<0, 0, 0>>, <<200, 100, 50>> }
Backgrounds == { Rgba(255, 255, 255, 255), Rgba(10, 200, 90, 0) }

RenderInit ==
    /\ LayoutUnused
    /\ HandlerUnused
    /\ font \in RenderFonts
    /\ \E b \in Blocks : font_scale = b.scale /\ position = b.at
    /\ max_width = IMAGE_WIDTH - WrapMargin
    /\ text \in Texts
    /\ text_color \in Colors
    /\ \E bg \in Backgrounds : imgbuf = FromPixel(IMAGE_WIDTH, IMAGE_HEIGHT, bg)
    /\ initial = imgbuf
    /\ once = None
    /\ glyphs = <<>>
    /\ next_glyph = 0
    /\ calls = 0
    /\ rpc = "render_text"

\* render_text up to its call of render_glyphs
RenderTextLayout ==
    /\ rpc = "render_text"
    /\ glyphs' = LayoutParagraph(ScaledFont, position, max_width, text)
    /\ next_glyph' = 1
    /\ rpc' = "render_glyphs"
    /\ UNCHANGED <<imgbuf, text_color, initial, once, calls>>
    /\ UNCHANGED <<layoutVars, handlerVars>>

\* one iteration of the loop of render_glyphs
RenderGlyph ==
    /\ rpc = "render_glyphs"
    /\ next_glyph <= Len(glyphs)
    /\ LET drawn == DrawGlyph(font, imgbuf, glyphs[next_glyph], text_color)
       IN  /\ imgbuf' = drawn.img
           /\ rpc' = IF drawn.panicked THEN "panicked" ELSE rpc
    /\ next_glyph' = next_glyph + 1
    /\ UNCHANGED <<text_color, glyphs, initial, once, calls>>
    /\ UNCHANGED <<layoutVars, handlerVars>>

RenderGlyphsReturn ==
    /\ rpc = "render_glyphs"
    /\ next_glyph > Len(glyphs)
    /\ calls' = calls + 1
    /\ rpc' = "rendered"
    /\ UNCHANGED <<imgbuf, text_color, glyphs, next_glyph, initial, once>>
    /\ UNCHANGED <<layoutVars, handlerVars>>

\* render_glyphs called again with the same font, glyphs and colour
RenderGlyphsAgain ==
    /\ rpc = "rendered"
    /\ calls = 1
    /\ once' = imgbuf
    /\ next_glyph' = 1
    /\ rpc' = "render_glyphs"
    /\ UNCHANGED <<imgbuf, text_color, glyphs, initial, calls>>
    /\ UNCHANGED <<layoutVars, handlerVars>>

RenderNext ==
    RenderTextLayout \/ RenderGlyph \/ RenderGlyphsReturn \/ RenderGlyphsAgain

SpecRender == RenderInit /\ [][RenderNext]_vars

-----------------------------------------------------------------------------
(* The fetch handler `main`, one statement per step, over any sequence of  *)
(* requests.  What the runtime decides (the Cache API, the bucket, the     *)
(* encoder, the header setters) is chosen nondeterministically.            *)

\* String::len: the length in bytes
ByteLen(s) ==
    Cardinality({ib \in (1 .. Len(s)) \X (1 .. 4) : ib[2] <= Utf8Len(s[ib[1]])})

Repeat(c, n) == [i \in 1 .. n |-> c]

\* the query parameters a request URL carries: each is absent or a string
TextParams ==
    { None, Some(<<>>), Some(<<"a">>),
      Some(Repeat("a", MaxTextBytes)), Some(Repeat("a", MaxTextBytes + 1)),
      Some(Repeat("U+3042", MaxTextBytes \div 3)),
      Some(Repeat("U+3042", MaxTextBytes \div 3 + 1)) }
AuthorParams == { None, Some(<<"b">>), Some(<<"a", "a">>) }
TitleParams == { None, Some(<<"b">>) }

Urls == [text : TextParams, author : AuthorParams, title : TitleParams]

\* req.url() is Ok(url) or an error
Requests == [method : {"GET", "POST"}, url : {None} \cup {Some(u) : u \in Urls}]

\* fn query: the value of the first pair with that key
Query(r, key) == IF r.url = None THEN None ELSE r.url[1][key]

\* the bytes the bucket can hold under "MPLUS1p-Medium.ttf"
FontFiles ==
    { [magic |-> "ttf", table |-> Some(FontTable(90, 0, 0))],
      [magic |-> "junk", table |-> None] }

\* FontRef::try_from_slice: the font, or None for an error
TryFromSlice(bytes) == IF bytes.magic = "ttf" THEN bytes.table ELSE None

\* imgbuf.write_to(&mut buffer, ImageFormat::Png)
EncodePng(img) == [format |-> "png", image |-> img]

\* Response::error and Response::from_bytes
ResponseError(msg, status) == [status |-> status, body |-> msg, headers |-> <<>>]
FromBytes(bytes) == [status |-> 200, body |-> bytes, headers |-> <<>>]
\* Headers::set and Response::with_headers
HeadersSet(h, name, value) == (name :> value) @@ h
WithHeaders(r, h) == [r EXCEPT !.headers = h]

INTERNAL_SERVER_ERROR == "Internal Server Error"

NoLocals ==
    [url |-> None, cached |-> None, text |-> None, author |-> None,
     title |-> None, raw_font |-> None, font |-> None, imgbuf |-> None,
     buffer |-> None, resp |-> None, headers |-> None]

HandlerInit ==
    /\ LayoutUnused
    /\ RenderUnused
    /\ font = None /\ font_scale = 0 /\ position = None /\ max_width = 0
    /\ text = <<>>
    /\ req = None
    /\ pc = "idle"
    /\ locals = NoLocals
    /\ response = None
    /\ cache = <<>>

\* `return r` / `Ok(r)`
Return(r) == pc' = "done" /\ response' = Some(r)
\* control passes to the next statement
Goto(p) == pc' = p /\ UNCHANGED response

\* the runtime invokes main with a request
Fetch ==
    /\ pc \in {"idle", "done", "panicked"}
    /\ req' \in Requests
    /\ pc' = "method"
    /\ locals' = NoLocals
    /\ response' = None
    /\ UNCHANGED <<cache, layoutVars, renderVars>>

\* if req.method() != Method::Get
CheckMethod ==
    /\ pc = "method"
    /\ \/ req.method # "GET" /\ Return(ResponseError("Method Not Allowed", 405))
       \/ req.method = "GET" /\ Goto("url")
    /\ UNCHANGED <<req, locals, cache, layoutVars, renderVars>>

\* let url = match req.url()
GetUrl ==
    /\ pc = "url"
    /\ \/ /\ req.url = None
          /\ Return(ResponseError(INTERNAL_SERVER_ERROR, 500))
          /\ UNCHANGED locals
       \/ /\ req.url # None
          /\ locals' = [locals EXCEPT !.url = req.url]
          /\ Goto("cache_get")
    /\ UNCHANGED <<req, cache, layoutVars, renderVars>>

\* cache.get(cache_key, false): a stored response, or nothing (not stored,
\* evicted, or an error, which main treats as a miss)
CacheGet ==
    /\ pc = "cache_get"
    /\ \/ /\ locals.url[1] \in DOMAIN cache
          /\ locals' = [locals EXCEPT !.cached = Some(cache[locals.url[1]])]
          /\ Return(cache[locals.url[1]])
       \/ /\ UNCHANGED locals
          /\ Goto("text")
    /\ UNCHANGED <<req, cache, layoutVars, renderVars>>

\* let text = match query(&req, "text")
GetText ==
    /\ pc = "text"
    /\ \/ /\ Query(req, "text") = None
          /\ Return(ResponseError("text parameter is required", 400))
          /\ UNCHANGED locals
       \/ /\ Query(req, "text") # None
          /\ ByteLen(Query(req, "text")[1]) > MaxTextBytes
          /\ Return(ResponseError("text parameter is too long", 400))
          /\ UNCHANGED locals
       \/ /\ Query(req, "text") # None
          /\ ~(ByteLen(Query(req, "text")[1]) > MaxTextBytes)
          /\ locals' = [locals EXCEPT !.text = Query(req, "text")]
          /\ Goto("author")
    /\ UNCHANGED <<req, cache, layoutVars, renderVars>>

\* let author = match query(&req, "author")
GetAuthor ==
    /\ pc = "author"
    /\ \/ /\ Query(req, "author") = None
          /\ Return(ResponseError("author parameter is required", 400))
          /\ UNCHANGED locals
       \/ /\ Query(req, "author") # None
          /\ locals' = [locals EXCEPT !.author = Query(req, "author")]
          /\ Goto("title")
    /\ UNCHANGED <<req, cache, layoutVars, renderVars>>

\* let title = match query(&req, "title")
GetTitle ==
    /\ pc = "title"
    /\ \/ /\ Query(req, "title") = None
          /\ Return(ResponseError("title parameter is required", 400))
          /\ UNCHANGED locals
       \/ /\ Query(req, "title") # None
          /\ locals' = [locals EXCEPT !.title = Query(req, "title")]
          /\ Goto("bucket")
    /\ UNCHANGED <<req, cache, layoutVars, renderVars>>

\* let bucket = match env.bucket("BUCKET")
GetBucket ==
    /\ pc = "bucket"
    /\ \/ Return(ResponseError(INTERNAL_SERVER_ERROR, 500))
       \/ Goto("font_get")
    /\ UNCHANGED <<req, locals, cache, layoutVars, renderVars>>

\* bucket.get("MPLUS1p-Medium.ttf").execute().await, then
\* raw_font.body().unwrap().bytes().await.unwrap()
GetFont ==
    /\ pc = "font_get"
    /\ \/ Return(ResponseError(INTERNAL_SERVER_ERROR, 404)) /\ UNCHANGED locals
       \/ Return(ResponseError(INTERNAL_SERVER_ERROR, 500)) /\ UNCHANGED locals
       \/ pc' = "panicked" /\ UNCHANGED <<response, locals>>
       \/ /\ \E bytes \in FontFiles :
                locals' = [locals EXCEPT !.raw_font = Some(bytes)]
          /\ Goto("font_parse")
    /\ UNCHANGED <<req, cache, layoutVars, renderVars>>

\* mutant: a parse error is only logged and main goes on with a built-in font
ParseFont_LogsAndGoesOn ==
    /\ pc = "font_parse"
    /\ \/ /\ TryFromSlice(locals.raw_font[1]) = None
          /\ locals' = [locals EXCEPT !.font = Some(FontTable(90, 0, 0))]
          /\ Goto("canvas")
       \/ /\ TryFromSlice(locals.raw_font[1]) # None
          /\ locals' = [locals EXCEPT !.font = TryFromSlice(locals.raw_font[1])]
          /\ Goto("canvas")
    /\ UNCHANGED <<req, cache, layoutVars, renderVars>>

\* let font = match FontRef::try_from_slice(&raw_font)
ParseFont ==
    /\ pc = "font_parse"
    /\ \/ /\ TryFromSlice(locals.raw_font[1]) = None
          /\ Return(ResponseError(INTERNAL_SERVER_ERROR, 500))
          /\ UNCHANGED locals
       \/ /\ TryFromSlice(locals.raw_font[1]) # None
          /\ locals' = [locals EXCEPT !.font = TryFromSlice(locals.raw_font[1])]
          /\ Goto("canvas")
    /\ UNCHANGED <<req, cache, layoutVars, renderVars>>

\* let mut imgbuf = ImageBuffer::from_pixel(IMAGE_WIDTH, IMAGE_HEIGHT, white)
NewCanvas ==
    /\ pc = "canvas"
    /\ locals' = [locals EXCEPT !.imgbuf =
                     Some(FromPixel(IMAGE_WIDTH, IMAGE_HEIGHT, Rgba(255, 255, 255, 255)))]
    /\ Goto("render_text")
    /\ UNCHANGED <<req, cache, layoutVars, renderVars>>

\* imgbuf = render_text(font.clone(), scale, imgbuf, s, (0, 0, 0), at), which
\* panics when a glyph lies outside the canvas
RenderBlock(at_pc, scale, s, at, then) ==
    /\ pc = at_pc
    /\ LET drawn == RenderText(locals.font[1], scale, locals.imgbuf[1], s,
                               <<0, 0, 0>>, at)
       IN  \/ /\ drawn.panicked
              /\ pc' = "panicked"
              /\ UNCHANGED <<response, locals>>
           \/ /\ ~drawn.panicked
              /\ locals' = [locals EXCEPT !.imgbuf = Some(drawn.img)]
              /\ Goto(then)
    /\ UNCHANGED <<req, cache, layoutVars, renderVars>>

RenderTextBlock ==
    RenderBlock("render_text", TextScale, locals.text[1], Point(80, 230), "render_title")
RenderTitleBlock ==
    RenderBlock("render_title", TitleScale, locals.title[1], Point(80, 80), "render_author")
RenderAuthorBlock ==
    RenderBlock("render_author", TitleScale, locals.author[1], Point(1000, 500), "encode")

\* imgbuf.write_to(&mut buffer, image::ImageFormat::Png)
Encode ==
    /\ pc = "encode"
    /\ \/ Return(ResponseError(INTERNAL_SERVER_ERROR, 500)) /\ UNCHANGED locals
       \/ /\ locals' = [locals EXCEPT !.buffer = Some(EncodePng(locals.imgbuf[1]))]
          /\ Goto("from_bytes")
    /\ UNCHANGED <<req, cache, layoutVars, renderVars>>

\* let resp = match Response::from_bytes(buffer.into_inner())
MakeResponse ==
    /\ pc = "from_bytes"
    /\ \/ Return(ResponseError(INTERNAL_SERVER_ERROR, 500)) /\ UNCHANGED locals
       \/ /\ locals' = [locals EXCEPT !.resp = Some(FromBytes(locals.buffer[1])),
                                      !.headers = Some(<<>>)]
          /\ Goto("content_type")
    /\ UNCHANGED <<req, cache, layoutVars, renderVars>>

\* headers.set("content-type", "image/png")
SetContentType ==
    /\ pc = "content_type"
    /\ \/ Return(ResponseError(INTERNAL_SERVER_ERROR, 500)) /\ UNCHANGED locals
       \/ /\ locals' = [locals EXCEPT !.headers =
                           Some(HeadersSet(@[1], "content-type", "image/png"))]
          /\ Goto("cache_control")
    /\ UNCHANGED <<req, cache, layoutVars, renderVars>>

\* headers.set("Cache-Control", "public, max-age=604800")
SetCacheControl ==
    /\ pc = "cache_control"
    /\ \/ Return(ResponseError(INTERNAL_SERVER_ERROR, 500)) /\ UNCHANGED locals
       \/ /\ locals' = [locals EXCEPT !.headers =
                           Some(HeadersSet(@[1], "Cache-Control", "public, max-age=604800"))]
          /\ Goto("clone")
    /\ UNCHANGED <<req, cache, layoutVars, renderVars>>

\* let mut resp = resp.with_headers(headers); resp.cloned()
CloneResponse ==
    /\ pc = "clone"
    /\ \/ /\ Return(ResponseError(INTERNAL_SERVER_ERROR, 500))
          /\ locals' = [locals EXCEPT !.resp =
                           Some(WithHeaders(@[1], locals.headers[1]))]
       \/ /\ locals' = [locals EXCEPT !.resp =
                           Some(WithHeaders(@[1], locals.headers[1]))]
          /\ Goto("cache_put")
    /\ UNCHANGED <<req, cache, layoutVars, renderVars>>

\* mutant: the cache key leaves out the text parameter
CachePut_KeyWithoutText ==
    /\ pc = "cache_put"
    /\ \/ cache' = ([locals.url[1] EXCEPT !.text = Some(<<>>)] :> locals.resp[1]) @@ cache
       \/ UNCHANGED cache
    /\ Return(locals.resp[1])
    /\ UNCHANGED <<req, locals, layoutVars, renderVars>>

\* cache.put(url.to_string(), cloned_resp), whose error is only logged; Ok(resp)
CachePut ==
    /\ pc = "cache_put"
    /\ \/ cache' = (locals.url[1] :> locals.resp[1]) @@ cache
       \/ UNCHANGED cache
    /\ Return(locals.resp[1])
    /\ UNCHANGED <<req, locals, layoutVars, renderVars>>

Next ==
    \/ Fetch \/ CheckMethod \/ GetUrl \/ CacheGet \/ GetText \/ GetAuthor
    \/ GetTitle \/ GetBucket \/ GetFont \/ ParseFont \/ NewCanvas
    \/ RenderTextBlock \/ RenderTitleBlock \/ RenderAuthorBlock
    \/ Encode \/ MakeResponse \/ SetContentType \/ SetCacheControl
    \/ CloneResponse \/ CachePut

Spec == HandlerInit /\ [][Next]_vars

-----------------------------------------------------------------------------
(* Properties of layout_paragraph *)

Range(s) == {s[i] : i \in 1 .. Len(s)}
NotControl(c) == ~IsControl(c)

\* the characters the loop has consumed, and those of them that are placed
Processed == SubSeq(text, 1, next_char - 1)
Placed == SelectSeq(Processed, NotControl)
PlacedBefore(k) == Len(SelectSeq(SubSeq(text, 1, k), NotControl))

\* the pen after target[i] has been placed and advanced over
PenAfter(i) == target[i].position.x + HAdvance(ScaledFont, target[i].id)
\* a line break (wrap or newline) follows target[i]
BreakAfter(i) ==
    IF i < Len(target) THEN target[i + 1].position.y > target[i].position.y
    ELSE caret.y > target[i].position.y
\* the text is one unbroken run: no whitespace, no control character
IsRun(s) == \A c \in Range(s) : ~IsWhitespace(c) /\ ~IsControl(c)
Max(a, b) == IF a > b THEN a ELSE b

C4_PenMovesRightAndDown ==
    IsRun(text) =>
        /\ \A i \in 1 .. Len(target) :
              /\ target[i].position.x >= position.x
              /\ target[i].position.y >= position.y
        /\ \A i \in 1 .. Len(target) - 1 :
              /\ target[i + 1].position.y >= target[i].position.y
              /\ target[i + 1].position.y = target[i].position.y
                    => target[i + 1].position.x >= target[i].position.x

\* the kerning of a pair never pulls the pen back by more than the advance
\* of the pair's first glyph
KerningWithinAdvance(f) ==
    \A g, h \in GlyphIds : f.adv_u[g] + f.kern_u[<<g, h>>] >= 0

\* C4 amended: the same, for the fonts whose kerning never pulls the pen
\* back by more than the advance of the glyph before it.
C4_PenMovesRightAndDownUnderBoundedKerning ==
    KerningWithinAdvance(font) => C4_PenMovesRightAndDown

C4_Witness ==
    /\ lpc = "returned"
    /\ text = <<"a", "b", "a">>
    /\ KerningWithinAdvance(font)
    /\ font.kern_u[<<1, 2>>] < 0
    /\ target[2].position.x < PenAfter(1)
    /\ target[3].position.y > target[2].position.y

\* C5: one glyph per non-control character, in the order of the input;
\* control characters contribute no entry, a wrap drops and reorders nothing.
C5_OneGlyphPerPlacedChar ==
    /\ Len(target) = Len(Placed)
    /\ \A i \in 1 .. Len(target) : target[i].id = GlyphId(Placed[i])

C5_Witness ==
    /\ lpc = "returned"
    /\ text = <<"a", "\t", "b">>
    /\ Len(target) = 2
    /\ target[2].position.y > target[1].position.y

\* the step that consumes a newline
AtNewline == lpc = "loop" /\ next_char <= Len(text) /\ text[next_char] = "\n"

\* C6, the step: a newline emits no glyph, resets pen.x to anchor.x, raises
\* pen.y by exactly height + line gap, and clears the previous glyph.
C6_NewlineStep ==
    AtNewline =>
        /\ target' = target
        /\ caret' = Point(position.x,
                          caret.y + Height(ScaledFont) + LineGap(ScaledFont))
        /\ last_glyph' = None

\* C6, its effect: every glyph placed after a newline has a strictly greater
\* y than every glyph placed before it, and the first glyph after it sits at
\* anchor.x (no kerning across the break).
C6_NewlineSeparates ==
    \A k \in 1 .. Len(Processed) :
        Processed[k] = "\n" =>
            /\ \A i \in 1 .. PlacedBefore(k) :
                  \A j \in PlacedBefore(k) + 1 .. Len(target) :
                      target[j].position.y > target[i].position.y
            /\ PlacedBefore(k) < Len(target) =>
                  target[PlacedBefore(k) + 1].position.x = position.x

\* C6: in layout_paragraph a newline emits no glyph, resets pen.x, raises
\* pen.y by exactly the line advance so that later glyphs are strictly lower,
\* and clears the kerning history.
C6_Newline == [][C6_NewlineStep]_vars /\ []C6_NewlineSeparates

C6_Witness ==
    /\ lpc = "returned"
    /\ text = <<"a", "\n", "b">>
    /\ font.kern_u[<<1, 2>>] # 0
    /\ Len(target) = 2
    /\ target[2].position.x = position.x
    /\ target[2].position.y = target[1].position.y + VAdvance(ScaledFont)

\* some glyph before target[i] was followed by a line break
BrokenBefore(i) == \E j \in 1 .. i - 1 : BreakAfter(j)

\* C9 as stated: in a run, once a wrap has occurred a wrap occurs after
\* every following glyph.
C9_WrapsAfterEveryLaterGlyph ==
    IsRun(text) =>
        \A i \in 1 .. Len(target) : BrokenBefore(i) => BreakAfter(i)

\* C9 amended: in a run a wrap follows a glyph exactly when the pen, having
\* advanced over that glyph, exceeds anchor.x + maxLineWidth; the glyph after
\* a wrap starts at anchor.x, so it is followed by a wrap only if its own
\* advance exceeds maxLineWidth.
C9_WrapsExactlyOnOverflow ==
    IsRun(text) =>
        \A i \in 1 .. Len(target) :
            /\ BreakAfter(i) <=> PenAfter(i) > position.x + max_width
            /\ (i > 1 /\ BreakAfter(i - 1)) =>
                  /\ target[i].position.x = position.x
                  /\ BreakAfter(i) <=>
                        HAdvance(ScaledFont, target[i].id) > max_width

C9_Witness ==
    /\ lpc = "returned"
    /\ IsRun(text)
    /\ Len(target) = 3
    /\ BreakAfter(2)
    /\ ~BreakAfter(3)

-----------------------------------------------------------------------------
(* Properties of render_text and render_glyphs *)

Outlined(g) == font.outline[g.id] # None
\* the coverage values of an outlined glyph, in quarters
CoverageOf(g) == UNION {Range(row) : row \in Range(font.outline[g.id][1].rows)}

\* C1: every pixel render_glyphs writes lies inside the canvas, and a glyph
\* that falls outside the canvas is clipped or skipped: it never faults.
C1_ClipsAndNeverFaults ==
    /\ rpc # "panicked"
    /\ imgbuf # None =>
          \A q \in DOMAIN imgbuf.px :
              q[1] \in 0 .. IMAGE_WIDTH - 1 /\ q[2] \in 0 .. IMAGE_HEIGHT - 1

\* C3 as stated: compositing the same glyphs with the same colour twice
\* gives the same canvas as compositing them once.
C3_TwiceIsOnce ==
    (rpc = "rendered" /\ calls = 2) => imgbuf = once

\* C3 amended: it does when every coverage value is 0 or 1 (for a value
\* strictly between, the second pass blends the pixel again).
C3_TwiceIsOnceAtFullCoverage ==
    (rpc = "rendered" /\ calls = 2
       /\ \A i \in 1 .. Len(glyphs) :
             Outlined(glyphs[i]) => CoverageOf(glyphs[i]) \subseteq {0, 4})
    => imgbuf = once

C3_Witness ==
    /\ rpc = "rendered"
    /\ calls = 2
    /\ \E i \in 1 .. Len(glyphs) : Outlined(glyphs[i])
    /\ \A i \in 1 .. Len(glyphs) :
          Outlined(glyphs[i]) => CoverageOf(glyphs[i]) \subseteq {0, 4}
    /\ imgbuf # initial
    /\ imgbuf = once

\* C8: when no laid-out glyph has an outline (the empty string included),
\* render_text leaves the canvas as it was and does not fail, and a glyph
\* without an outline still has its layout entry.
C8_NoOutlineNoWrite ==
    (rpc # "render_text" /\ \A i \in 1 .. Len(glyphs) : ~Outlined(glyphs[i])) =>
        /\ imgbuf = initial
        /\ rpc # "panicked"
        /\ Len(glyphs) = Len(SelectSeq(text, NotControl))

C8_Witness ==
    /\ rpc = "rendered"
    /\ Len(glyphs) = 2
    /\ \A i \in 1 .. Len(glyphs) : ~Outlined(glyphs[i])
    /\ imgbuf = initial

-----------------------------------------------------------------------------
(* Properties of the fetch handler *)

\* the fetched bytes do not parse as a font
FontUnparsable ==
    locals.raw_font # None /\ TryFromSlice(locals.raw_font[1]) = None

\* C7, the states: with unparsable font bytes there is no canvas and no
\* font, main is at the parse or has returned, and what it returned is the
\* 500 error response.
C7_NoCanvasAndError ==
    FontUnparsable =>
        /\ locals.font = None
        /\ locals.imgbuf = None
        /\ pc \in {"font_parse", "done"}
        /\ pc = "done" =>
              response = Some(ResponseError(INTERNAL_SERVER_ERROR, 500))

\* C7, the steps: with unparsable font bytes no step changes the cache.
C7_NoCachePut == FontUnparsable => cache' = cache

\* C7: when the fetched bytes do not parse as a font the request fails as a
\* whole: an error response, no canvas, no render_text call, no cache put.
C7_FontParseErrorFailsRequest ==
    []C7_NoCanvasAndError /\ [][C7_NoCachePut]_vars

C7_Witness ==
    /\ pc = "done"
    /\ FontUnparsable
    /\ response = Some(ResponseError(INTERNAL_SERVER_ERROR, 500))
    /\ cache # <<>>

ImageHeaders ==
    HeadersSet(HeadersSet(<<>>, "content-type", "image/png"),
               "Cache-Control", "public, max-age=604800")

\* main is at the cache put of a fully successful render
SuccessfulRender ==
    /\ pc = "cache_put"
    /\ req.method = "GET"
    /\ req.url # None /\ locals.url = req.url
    /\ locals.cached = None
    /\ locals.text # None /\ locals.text = Query(req, "text")
    /\ ByteLen(locals.text[1]) <= MaxTextBytes
    /\ locals.author # None /\ locals.title # None
    /\ locals.raw_font # None /\ locals.font # None
    /\ locals.font = TryFromSlice(locals.raw_font[1])
    /\ locals.imgbuf # None
    /\ locals.buffer = Some(EncodePng(locals.imgbuf[1]))
    /\ locals.resp = Some([status |-> 200, body |-> locals.buffer[1],
                           headers |-> ImageHeaders])

\* the image of a URL's three parameters, drawn with font f
ImageOf(u, f) ==
    LET blank == FromPixel(IMAGE_WIDTH, IMAGE_HEIGHT, Rgba(255, 255, 255, 255))
        t == RenderText(f, TextScale, blank, u.text[1], <<0, 0, 0>>, Point(80, 230))
        h == RenderText(f, TitleScale, t.img, u.title[1], <<0, 0, 0>>, Point(80, 80))
        a == RenderText(f, TitleScale, h.img, u.author[1], <<0, 0, 0>>, Point(1000, 500))
    IN  a.img

\* C10, the steps: the cache changes only by the put that ends a fully
\* successful render, which stores the rendered response under the URL.
C10_PutOnlyAfterRender ==
    cache' # cache =>
        /\ SuccessfulRender
        /\ cache' = (req.url[1] :> locals.resp[1]) @@ cache
        /\ response' = locals.resp

\* C10, the steps: a 405, 400, 404 or 500 response is returned with the
\* cache as it was.
C10_ErrorPutsNothing ==
    (response' # response /\ response' # None
        /\ response'[1].status \in {405, 400, 404, 500})
    => cache' = cache

\* C10, the steps: a cache hit returns the entry of the request's URL, and
\* the step after the render returns the rendered response whether or not
\* the put succeeded.
C10_WhatIsReturned ==
    /\ (pc = "cache_get" /\ pc' = "done") =>
          req.url[1] \in DOMAIN cache /\ response' = Some(cache[req.url[1]])
    /\ pc = "cache_put" => pc' = "done" /\ response' = locals.resp

\* C10, the states: every cache entry is the 200 image response rendered
\* from the parameters of the URL it is stored under.
C10_CacheHoldsRenders ==
    \A u \in DOMAIN cache :
        /\ u.text # None /\ u.author # None /\ u.title # None
        /\ ByteLen(u.text[1]) <= MaxTextBytes
        /\ \E bytes \in FontFiles :
              /\ TryFromSlice(bytes) # None
              /\ cache[u] = [status |-> 200,
                             body |-> EncodePng(ImageOf(u, TryFromSlice(bytes)[1])),
                             headers |-> ImageHeaders]

\* C10: a response is put in the cache only at the end of a fully successful
\* render, no error response comes with a put, a hit returns a rendered image
\* of the same URL, and a failed put still returns the rendered response.
C10_CacheOnlyHoldsRenders ==
    /\ [][C10_PutOnlyAfterRender]_vars
    /\ [][C10_ErrorPutsNothing]_vars
    /\ [][C10_WhatIsReturned]_vars
    /\ []C10_CacheHoldsRenders

C10_Witness ==
    /\ pc = "done"
    /\ locals.cached # None
    /\ response = locals.cached
    /\ Cardinality(DOMAIN cache) >= 2
    /\ \E u \in DOMAIN cache : cache[u] # response[1]

====
